---- MODULE Spec2Model ----
(***************************************************************************)
(* ITC match records: reconciliation of the GSTN and BOOKS sheets of one   *)
(* workbook (src/main.py).  The script is one sequential pass: clean both  *)
(* sheets, outer-merge them on (GSTN, InvoiceNumber_clean), flag tax       *)
(* mismatches on the matched rows, split the GSTN-only rows by invoice     *)
(* date, and write the four result tables back into the workbook.          *)
(*                                                                         *)
(* Cell values are tagged tuples of integers, so that any two cells can be *)
(* compared: a missing value, a string (its code points), a number, a      *)
(* timestamp, a boolean, a merge indicator.  Column names are pairs        *)
(* <<base, suffix>> standing for the string base + suffix.  A table is a   *)
(* sequence of column names and a bag of rows; a row is the sequence of    *)
(* its cells in column order.  The order of the rows of a table is not     *)
(* modelled.                                                               *)
(***************************************************************************)
EXTENDS Integers, Sequences, FiniteSets, Bags, TLC

VARIABLES pc, rawInvoice, cleanOnce, cleanTwice,
          gstnSheet, booksSheet, merged, result, printed, workbook, saveRet

vars == <<pc, rawInvoice, cleanOnce, cleanTwice,
          gstnSheet, booksSheet, merged, result, printed, workbook, saveRet>>

normVars == <<rawInvoice, cleanOnce, cleanTwice>>

pipeVars == <<gstnSheet, booksSheet, merged, result, printed, workbook, saveRet>>

(***************************************************************************)
(* Cell values                                                             *)
(***************************************************************************)
\* NaN / None / NaT: what pd.isna answers True for.
Null == <<0>>

\* A Python str, as the sequence of its code points.
Str(s) == <<1>> \o s

\* A number cell.
Num(n) == <<2, n>>

\* A pandas Timestamp at midnight of year y, month m, day d.
Date(y, m, d) == <<3, y, m, d>>

\* A boolean cell.
Bool(b) == <<4, IF b THEN 1 ELSE 0>>

\* The values of the _merge indicator column.
LeftOnly == <<5, 1>>

RightOnly == <<5, 2>>

Both == <<5, 3>>

IsNull(v) == v = Null

IsStr(v) == v[1] = 1

IsNum(v) == v[1] = 2

IsDate(v) == v[1] = 3

Chars(v) == Tail(v)

(***************************************************************************)
(* Key Normalizer: clean_invoice_number                                    *)
(***************************************************************************)
\* The character class of a regex that forgets the upper-case range.
IsLowerOnly(c) == c >= 97 /\ c <= 122

\* The character class [a-zA-Z] of the pattern of re.sub.
IsAsciiLetter(c) == (c >= 97 /\ c <= 122) \/ (c >= 65 /\ c <= 90)

\* re.sub(r"[a-zA-Z]", "", s): every match of the class is replaced by "".
RECURSIVE ReSubLetters(_)
ReSubLetters(s) ==
  IF s = <<>> THEN <<>>
  ELSE IF IsAsciiLetter(Head(s)) THEN ReSubLetters(Tail(s))
       ELSE <<Head(s)>> \o ReSubLetters(Tail(s))

\* The decimal digits of a natural number: str(n) of a Python int.
RECURSIVE Digits(_)
Digits(n) == IF n < 10 THEN <<48 + n>> ELSE Digits(n \div 10) \o <<48 + (n % 10)>>

\* str(invoice_str): a str is itself, an int is its decimal digits.
PyStr(v) == IF IsStr(v) THEN Chars(v) ELSE Digits(v[2])

clean_invoice_number(invoice_str) ==
  IF IsNull(invoice_str) THEN Null
  ELSE Str(ReSubLetters(PyStr(invoice_str)))

(***************************************************************************)
(* The normalizer alone, on every invoice number of a bounded alphabet     *)
(***************************************************************************)
MaxLen == 3

\* '-', '0', '@', 'A', 'Z', '[', '`', 'a', 'z', '{', e-acute
Alphabet == {45, 48, 64, 65, 90, 91, 96, 97, 122, 123, 233}

RECURSIVE StringsUpTo(_)
StringsUpTo(n) ==
  IF n = 0 THEN {<<>>}
  ELSE LET shorter == StringsUpTo(n - 1)
       IN  shorter \cup {s \o <<c>> : s \in {t \in shorter : Len(t) = n - 1}, c \in Alphabet}

InvoiceInputs == {Null} \cup {Str(s) : s \in StringsUpTo(MaxLen)} \cup {Num(7), Num(42)}

IdlePipe ==
  /\ gstnSheet = Null /\ booksSheet = Null /\ merged = Null /\ result = Null
  /\ printed = Null /\ workbook = Null /\ saveRet = Null

InitNorm ==
  /\ pc = "norm_input"
  /\ rawInvoice \in InvoiceInputs
  /\ cleanOnce = Null
  /\ cleanTwice = Null
  /\ IdlePipe

\* The key of a raw invoice number.
Normalize ==
  /\ pc = "norm_input"
  /\ cleanOnce' = clean_invoice_number(rawInvoice)
  /\ pc' = "norm_once"
  /\ UNCHANGED <<rawInvoice, cleanTwice>>
  /\ UNCHANGED pipeVars

\* The key of a key.
Renormalize ==
  /\ pc = "norm_once"
  /\ cleanTwice' = clean_invoice_number(cleanOnce)
  /\ pc' = "norm_twice"
  /\ UNCHANGED <<rawInvoice, cleanOnce>>
  /\ UNCHANGED pipeVars

NextNorm == Normalize \/ Renormalize

SpecNorm == InitNorm /\ [][NextNorm]_vars

\* The ASCII letters, listed.
AsciiLetters == (65 .. 90) \cup (97 .. 122)

KeptPositions(s) == {i \in 1 .. Len(s) : s[i] \notin AsciiLetters}

\* The position in s of the j-th character that is not a letter.
KeptAt(s, j) ==
  CHOOSE i \in KeptPositions(s) : Cardinality({x \in KeptPositions(s) : x <= i}) = j

\* C5: the key of a null invoice number is null; the key of a string is the
\* string of its characters that are not ASCII letters, in their order, and
\* nothing else; the key of a key is that key.
C5_KeyNormalization ==
  /\ pc \in {"norm_once", "norm_twice"} =>
       /\ IsNull(rawInvoice) => IsNull(cleanOnce)
       /\ (~IsNull(rawInvoice) /\ IsStr(rawInvoice)) =>
            /\ IsStr(cleanOnce)
            /\ Len(Chars(cleanOnce)) = Cardinality(KeptPositions(Chars(rawInvoice)))
            /\ \A j \in 1 .. Len(Chars(cleanOnce)) :
                 Chars(cleanOnce)[j] = Chars(rawInvoice)[KeptAt(Chars(rawInvoice), j)]
  /\ pc = "norm_twice" => cleanTwice = cleanOnce

\* The string "A0z", an upper-case letter, a digit and a lower-case letter,
\* has been normalized twice.
C5_Witness ==
  /\ pc = "norm_twice"
  /\ rawInvoice = Str(<<65, 48, 122>>)
  /\ cleanOnce = Str(<<48>>)

(***************************************************************************)
(* Columns and tables                                                      *)
(***************************************************************************)
\* The column named base, and the columns pandas names base + suffix.
Col(base) == <<base, "">>

GstnCol(base) == <<base, "_gstn">>

BooksCol(base) == <<base, "_books">>

\* str.endswith and the regex searches of DataFrame.filter, on the column
\* names a run can produce: no base name ends with a suffix, "GSTN" occurs
\* in the party column only, "_clean" in InvoiceNumber_clean only.
EndsWith(col, sfx) == col[2] = sfx

Contains(col, part) ==
  CASE part = "GSTN" -> col[1] = "GSTN"
    [] part = "_clean" -> col[1] = "InvoiceNumber_clean"
    [] OTHER -> col[2] = part

\* col.replace(sfx, "") of a column that ends with sfx.
StripSuffix(col) == <<col[1], "">>

Range(s) == {s[i] : i \in 1 .. Len(s)}

HasCol(cols, c) == c \in Range(cols)

IndexOf(cols, c) == CHOOSE i \in 1 .. Len(cols) : cols[i] = c

\* row[c] of a row of a table with these columns.
Cell(cols, row, c) == row[IndexOf(cols, c)]

\* The positions from i on of the elements of s that are in keep, in order.
RECURSIVE Positions(_, _, _)
Positions(s, keep, i) ==
  IF i > Len(s) THEN <<>>
  ELSE (IF s[i] \in keep THEN <<i>> ELSE <<>>) \o Positions(s, keep, i + 1)

\* The sub-sequence of s at the positions idx.
Pick(s, idx) == [k \in 1 .. Len(idx) |-> s[idx[k]]]

\* df[cols at idx]: the table with the columns at these positions only.
Project(t, idx) ==
  [t EXCEPT !.cols = Pick(t.cols, idx),
            !.rows = BagOfAll(LAMBDA r : Pick(r, idx), t.rows)]

\* df[mask]: the rows of t that are in keep.
SelectRows(t, keep) ==
  [t EXCEPT !.rows = [r \in (DOMAIN t.rows) \cap keep |-> t.rows[r]]]

Table(cols, rows) == [none |-> FALSE, cols |-> cols, rows |-> rows]

\* A None entry of the result dictionary.
NoneTable == [none |-> TRUE, cols |-> <<>>, rows |-> EmptyBag]

\* DataFrame.empty: an axis of length 0.
IsEmpty(t) == t.cols = <<>> \/ DOMAIN t.rows = {}

\* DataFrame.dropna(subset): the rows with no missing cell in these columns.
DropNa(t, subset) ==
  SelectRows(t, {r \in DOMAIN t.rows : \A c \in subset : ~IsNull(Cell(t.cols, r, c))})

\* DataFrame.filter(regex): the columns of t that are in keep.
FilterCols(t, keep) == Project(t, Positions(t.cols, keep, 1))

(***************************************************************************)
(* Record Filter: the gstn and books frames                                *)
(***************************************************************************)
PartyCol == Col("GSTN")

InvoiceCol == Col("Invoice Number")

CleanCol == Col("InvoiceNumber_clean")

OriginalCol == Col("InvoiceNumber_original")

DateCol == Col("Invoice Date")

FilingCol == Col("gstr1_filing_date")

MergeCol == Col("_merge")

FlagCol == Col("MIS_MATCHED")

\* .assign(InvoiceNumber_clean=..., InvoiceNumber_original=...)
AssignKeys(t) ==
  [t EXCEPT !.cols = t.cols \o <<CleanCol, OriginalCol>>,
            !.rows = BagOfAll(LAMBDA r : r \o <<clean_invoice_number(Cell(t.cols, r, InvoiceCol)),
                                                Cell(t.cols, r, InvoiceCol)>>, t.rows)]

\* data[sheet].dropna(...).assign(...).dropna(subset=["InvoiceNumber_clean"])
CleanSheet(sheet) ==
  DropNa(AssignKeys(DropNa(sheet, {PartyCol, InvoiceCol})), {CleanCol})

gstn == CleanSheet(gstnSheet)

books == CleanSheet(booksSheet)

(***************************************************************************)
(* Matcher: pd.merge(gstn, books, on=[GSTN, InvoiceNumber_clean],          *)
(* how="outer", indicator=True, suffixes=("_gstn", "_books"))              *)
(***************************************************************************)
KeyCols == {PartyCol, CleanCol}

Overlap(left, right) == (Range(left.cols) \cap Range(right.cols)) \ KeyCols

LeftOutCols(left, right) ==
  [i \in 1 .. Len(left.cols) |->
     IF left.cols[i] \in Overlap(left, right) THEN GstnCol(left.cols[i][1])
     ELSE left.cols[i]]

RightValueIdx(right) == Positions(right.cols, Range(right.cols) \ KeyCols, 1)

RightOutCols(left, right) ==
  [k \in 1 .. Len(RightValueIdx(right)) |->
     LET c == right.cols[RightValueIdx(right)[k]]
     IN  IF c \in Overlap(left, right) THEN BooksCol(c[1]) ELSE c]

MergedCols(left, right) ==
  LeftOutCols(left, right) \o RightOutCols(left, right) \o <<MergeCol>>

Nulls(n) == [i \in 1 .. n |-> Null]

\* A merge on the invoice key alone.
SameKeyIgnoringParty(left, g, right, b) ==
  Cell(left.cols, g, CleanCol) = Cell(right.cols, b, CleanCol)

\* on=["GSTN", "InvoiceNumber_clean"]: the two rows agree on both keys.
SameKey(left, g, right, b) ==
  \A k \in KeyCols : Cell(left.cols, g, k) = Cell(right.cols, b, k)

BothRow(right, g, b) == g \o Pick(b, RightValueIdx(right)) \o <<Both>>

LeftOnlyRow(right, g) == g \o Nulls(Len(RightValueIdx(right))) \o <<LeftOnly>>

RightOnlyRow(left, right, b) ==
  [i \in 1 .. Len(left.cols) |->
     IF left.cols[i] \in KeyCols THEN Cell(right.cols, b, left.cols[i]) ELSE Null]
  \o Pick(b, RightValueIdx(right)) \o <<RightOnly>>

\* Every pair of one left and one right row with the same key, as often as
\* the two rows occur.
PairBag(left, right) ==
  [p \in {q \in (DOMAIN left.rows) \X (DOMAIN right.rows) :
            SameKey(left, q[1], right, q[2])} |->
     left.rows[p[1]] * right.rows[p[2]]]

Unpaired(left, right) ==
  [g \in {x \in DOMAIN left.rows :
            \A b \in DOMAIN right.rows : ~SameKey(left, x, right, b)} |-> left.rows[g]]

UnpairedRight(left, right) ==
  [b \in {x \in DOMAIN right.rows :
            \A g \in DOMAIN left.rows : ~SameKey(left, g, right, x)} |-> right.rows[b]]

Merge(left, right) ==
  Table(MergedCols(left, right),
        BagOfAll(LAMBDA p : BothRow(right, p[1], p[2]), PairBag(left, right))
        (+) BagOfAll(LAMBDA g : LeftOnlyRow(right, g), Unpaired(left, right))
        (+) BagOfAll(LAMBDA b : RightOnlyRow(left, right, b), UnpairedRight(left, right)))

\* merged[merged["_merge"] == tag]
WithMerge(t, tag) == SelectRows(t, {r \in DOMAIN t.rows : Cell(t.cols, r, MergeCol) = tag})

\* DataFrame.drop(columns=c)
DropCol(t, c) == Project(t, Positions(t.cols, Range(t.cols) \ {c}, 1))

(***************************************************************************)
(* Mismatch Detector: add_mismatch_flag                                    *)
(***************************************************************************)
tax_columns == <<"Taxable", "CGST", "SGST", "IGST", "CESS">>

\* The tax columns present on both sides of the merged data.
ComparedTax(df) ==
  {c \in Range(tax_columns) : HasCol(df.cols, GstnCol(c)) /\ HasCol(df.cols, BooksCol(c))}

\* .fillna(0)
FillNa0(v) == IF IsNull(v) THEN Num(0) ELSE v

\* .astype(float) of a number cell.
AsFloat(v) == v[2]

\* A comparison of the raw cells: NaN equals nothing.
TaxMatchNoFill(df, r, c) ==
  /\ ~IsNull(Cell(df.cols, r, GstnCol(c)))
  /\ ~IsNull(Cell(df.cols, r, BooksCol(c)))
  /\ AsFloat(Cell(df.cols, r, GstnCol(c))) = AsFloat(Cell(df.cols, r, BooksCol(c)))

\* df[col_gstn].fillna(0).astype(float) == df[col_books].fillna(0).astype(float)
TaxMatch(df, r, c) ==
  AsFloat(FillNa0(Cell(df.cols, r, GstnCol(c)))) = AsFloat(FillNa0(Cell(df.cols, r, BooksCol(c))))

\* ~df[match_cols].all(axis=1)
RowMismatch(df, r) == ~(\A c \in ComparedTax(df) : TaxMatch(df, r, c))

add_mismatch_flag(df) ==
  IF ComparedTax(df) = {} THEN df
  ELSE [df EXCEPT !.cols = df.cols \o <<FlagCol>>,
                  !.rows = BagOfAll(LAMBDA r : r \o <<Bool(RowMismatch(df, r))>>, df.rows)]

\* The "Warning: Missing tax column" lines add_mismatch_flag prints.
MissingTaxWarnings(df) == Range(tax_columns) \ ComparedTax(df)

(***************************************************************************)
(* Dates: pd.to_datetime and strftime("%d/%m/%Y")                          *)
(***************************************************************************)
Two(n) == <<48 + (n \div 10), 48 + (n % 10)>>

Four(n) == Two(n \div 100) \o Two(n % 100)

Strftime(v) == Str(Two(v[4]) \o <<47>> \o Two(v[3]) \o <<47>> \o Four(v[2]))

IsDigit(c) == c >= 48 /\ c <= 57

NumOf(s) == IF Len(s) = 0 THEN 0
            ELSE LET F[i \in 0 .. Len(s)] == IF i = 0 THEN 0 ELSE 10 * F[i - 1] + (s[i] - 48)
                 IN  F[Len(s)]

DaysIn(y, m) ==
  IF m \in {4, 6, 9, 11} THEN 30
  ELSE IF m = 2 THEN (IF y % 4 = 0 /\ (y % 100 # 0 \/ y % 400 = 0) THEN 29 ELSE 28)
  ELSE 31

ValidDate(y, m, d) == m \in 1 .. 12 /\ d >= 1 /\ d <= DaysIn(y, m)

\* pd.to_datetime of a text NN/NN/NNNN: month first when that is a date,
\* day first otherwise, NaT when neither is.
ParseDateText(s) ==
  IF /\ Len(s) = 10 /\ s[3] = 47 /\ s[6] = 47
     /\ \A i \in {1, 2, 4, 5, 7, 8, 9, 10} : IsDigit(s[i])
  THEN LET a == NumOf(SubSeq(s, 1, 2))
           b == NumOf(SubSeq(s, 4, 5))
           y == NumOf(SubSeq(s, 7, 10))
       IN  IF ValidDate(y, a, b) THEN Date(y, a, b)
           ELSE IF ValidDate(y, b, a) THEN Date(y, b, a)
           ELSE Null
  ELSE Null

\* pd.to_datetime(v, errors="coerce") of a cell of a date column.
ToDatetime(v) ==
  IF IsDate(v) THEN v
  ELSE IF ~IsNull(v) /\ IsStr(v) THEN ParseDateText(Chars(v))
  ELSE Null

\* A comparison that counts the cutoff day as earlier.
DateLessOrEqual(a, b) ==
  \/ a[2] < b[2]
  \/ a[2] = b[2] /\ a[3] < b[3]
  \/ a[2] = b[2] /\ a[3] = b[3] /\ a[4] <= b[4]

\* a < b of two Timestamps.
DateLess(a, b) ==
  \/ a[2] < b[2]
  \/ a[2] = b[2] /\ a[3] < b[3]
  \/ a[2] = b[2] /\ a[3] = b[3] /\ a[4] < b[4]

(***************************************************************************)
(* Period Classifier: categorize_gstn                                      *)
(***************************************************************************)
\* cutoff_date="2024-04-01"
cutoff_date == Date(2024, 4, 1)

\* row.get("Invoice Date_gstn")
InvDate(df, r) ==
  IF HasCol(df.cols, GstnCol("Invoice Date")) THEN Cell(df.cols, r, GstnCol("Invoice Date"))
  ELSE Null

\* The branch that appends the row to prev_fy.
IsPrevFy(df, r) ==
  /\ ~IsNull(InvDate(df, r))
  /\ ~IsNull(ToDatetime(InvDate(df, r)))
  /\ DateLess(ToDatetime(InvDate(df, r)), cutoff_date)

\* pd.DataFrame(list of rows): no row, no column.
FrameOf(t) == IF DOMAIN t.rows = {} THEN Table(<<>>, EmptyBag) ELSE t

prev_fy(df) == FrameOf(SelectRows(df, {r \in DOMAIN df.rows : IsPrevFy(df, r)}))

not_in_books(df) == FrameOf(SelectRows(df, {r \in DOMAIN df.rows : ~IsPrevFy(df, r)}))

\* The "Missing Invoice Date: party, invoice" lines, one per row.
MissingDatePrints(df) ==
  BagOfAll(LAMBDA r : <<Cell(df.cols, r, PartyCol), Cell(df.cols, r, GstnCol("InvoiceNumber_original"))>>,
           SelectRows(df, {r \in DOMAIN df.rows : IsNull(InvDate(df, r))}).rows)

(***************************************************************************)
(* Result Assembler                                                        *)
(***************************************************************************)
matched_df(m) == add_mismatch_flag(WithMerge(m, Both))

\* regex "GSTN|InvoiceNumber_original_books|^((?!_clean|_gstn).)*$"
NextFyRegex(c) ==
  \/ Contains(c, "GSTN")
  \/ c = BooksCol("InvoiceNumber_original")
  \/ ~(Contains(c, "_clean") \/ Contains(c, "_gstn"))

\* regex "GSTN|InvoiceNumber_original_gstn|^((?!_books).)*$"
GstnUnmatchedRegex(c) ==
  \/ Contains(c, "GSTN")
  \/ c = GstnCol("InvoiceNumber_original")
  \/ ~Contains(c, "_books")

\* A table whose columns stay where they are.
KeepOrder(t, c) == t

\* cols = [col for col in columns if col != c]; cols.append(c); df[cols]
MoveLast(t, c) ==
  IF HasCol(t.cols, c)
  THEN Project(t, Positions(t.cols, Range(t.cols) \ {c}, 1) \o <<IndexOf(t.cols, c)>>)
  ELSE t

next_fy_df(m) ==
  MoveLast(FilterCols(WithMerge(m, RightOnly), {c \in Range(m.cols) : NextFyRegex(c)}),
           FilingCol)

gstn_unmatched(m) ==
  FilterCols(WithMerge(m, LeftOnly), {c \in Range(m.cols) : GstnUnmatchedRegex(c)})

BucketOrder == <<"MATCHED", "PREV_FY_ITC", "NOTINBOOKS", "NEXT_FY_ITC">>

Buckets == Range(BucketOrder)

ResultOf(m) ==
  [b \in Buckets |->
     CASE b = "MATCHED" -> DropCol(matched_df(m), MergeCol)
       [] b = "PREV_FY_ITC" -> prev_fy(gstn_unmatched(m))
       [] b = "NOTINBOOKS" -> not_in_books(gstn_unmatched(m))
       [] b = "NEXT_FY_ITC" -> next_fy_df(m)]

(***************************************************************************)
(* clean_columns                                                           *)
(***************************************************************************)
DropList ==
  {CleanCol, GstnCol("InvoiceNumber_original"), BooksCol("InvoiceNumber_original"), MergeCol}

\* The columns the loop does not drop.
KeepsCol(col, sheet_name) ==
  IF col \in DropList THEN FALSE
  ELSE IF EndsWith(col, "_books") THEN sheet_name # "MATCHED"
  ELSE IF EndsWith(col, "_gstn") THEN sheet_name # "NEXT_FY_ITC"
  ELSE ~(col = FilingCol /\ sheet_name # "MATCHED")

\* new_col of a column that is kept.
NewName(col) ==
  IF EndsWith(col, "_books") \/ EndsWith(col, "_gstn") THEN StripSuffix(col) ELSE col

\* pd.to_datetime(column, errors="coerce").dt.strftime("%d/%m/%Y"), one cell.
FormatCell(v) == IF IsNull(ToDatetime(v)) THEN Null ELSE Strftime(ToDatetime(v))

FormatDateCol(t, c) ==
  IF HasCol(t.cols, c)
  THEN [t EXCEPT !.rows = BagOfAll(LAMBDA r : [r EXCEPT ![IndexOf(t.cols, c)] = FormatCell(@)],
                                   t.rows)]
  ELSE t

RenameCols(t) == [t EXCEPT !.cols = [i \in 1 .. Len(t.cols) |-> NewName(t.cols[i])]]

clean_columns(df, sheet_name) ==
  FormatDateCol(
    FormatDateCol(
      RenameCols(Project(df, Positions(df.cols, {c \in Range(df.cols) : KeepsCol(c, sheet_name)}, 1))),
      DateCol),
    FilingCol)

(***************************************************************************)
(* The workbook and save_to_excel                                          *)
(***************************************************************************)
\* A worksheet: its rows from row 1 on, each the sequence of its cells.
AbsentSheet == [exists |-> FALSE, cells |-> <<>>]

\* wb.create_sheet(sheet_name)
NewSheet == [exists |-> TRUE, cells |-> <<>>]

\* ws.max_row: 1 for a sheet with no cell.
max_row(ws) == IF Len(ws.cells) = 0 THEN 1 ELSE Len(ws.cells)

\* ws.delete_rows(idx, amount)
delete_rows(ws, idx, amount) ==
  [ws EXCEPT !.cells = SubSeq(@, 1, idx - 1) \o SubSeq(@, idx + amount, Len(@))]

\* ws.cell(row=r, column=c, value=row[c]) for every c of one row.
SetRow(ws, r, row) ==
  LET padded == IF Len(ws.cells) >= r THEN ws.cells
                ELSE ws.cells \o [i \in 1 .. (r - Len(ws.cells)) |-> <<>>]
  IN  [ws EXCEPT !.cells = [padded EXCEPT ![r] = row \o SubSeq(@, Len(row) + 1, Len(@))]]

\* The rows of a table in the order they are written.
RECURSIVE BagToSeq(_)
BagToSeq(B) ==
  IF DOMAIN B = {} THEN <<>>
  ELSE LET x == CHOOSE y \in DOMAIN B : TRUE
       IN  <<x>> \o BagToSeq(B (-) SetToBag({x}))

\* enumerate(dataframe_to_rows(df, index=False, header=False), start=3)
RECURSIVE WriteRows(_, _, _)
WriteRows(ws, rows, r) ==
  IF rows = <<>> THEN ws ELSE WriteRows(SetRow(ws, r, Head(rows)), Tail(rows), r + 1)

\* A write that leaves the rows of the sheet in place.
WriteSheetNoDelete(ws, df) ==
  WriteRows(IF ws.exists THEN ws ELSE NewSheet, BagToSeq(df.rows), 3)

\* Lines 40-55: create the sheet if absent, delete from row 3, write from row 3.
WriteSheet(ws, df) ==
  LET ws0 == IF ws.exists THEN ws ELSE NewSheet
      ws1 == IF max_row(ws0) >= 3 THEN delete_rows(ws0, 3, max_row(ws0) - 2) ELSE ws0
  IN  WriteRows(ws1, BagToSeq(df.rows), 3)

\* A guard that lets every table through.
IsWrittenAlways(df) == ~df.none

\* df is not None and not df.empty
IsWritten(df) == ~df.none /\ ~IsEmpty(df)

BucketIndex(b) == CHOOSE i \in 1 .. Len(BucketOrder) : BucketOrder[i] = b

\* The result tables once the loop has handled the first k sheets:
\* clean_columns changes the table it is given.
CleanedResult(res, k) ==
  [b \in Buckets |->
     IF BucketIndex(b) <= k /\ IsWritten(res[b]) THEN clean_columns(res[b], b) ELSE res[b]]

\* The workbook in memory once the loop has handled every sheet.
WrittenWorkbook(wb, res) ==
  [b \in Buckets |->
     IF IsWritten(res[b]) THEN WriteSheet(wb[b], clean_columns(res[b], b)) ELSE wb[b]]

\* The rows of a sheet from row 3 on.
DataRows(ws) == SubSeq(ws.cells, 3, Len(ws.cells))

HeadRows(ws) == SubSeq(ws.cells, 1, 2)

(***************************************************************************)
(* The run                                                                 *)
(***************************************************************************)
NoPrints == [missingTax |-> {}, missingDate |-> EmptyBag]

NoResult == [b \in Buckets |-> NoneTable]

IdleNorm == rawInvoice = Null /\ cleanOnce = Null /\ cleanTwice = Null

\* Lines 117-235: filter, merge, flag, categorize, assemble.
Reconcile ==
  /\ pc = "loaded"
  /\ merged' = Merge(gstn, books)
  /\ result' = ResultOf(merged')
  /\ printed' = [missingTax |-> MissingTaxWarnings(WithMerge(merged', Both)),
                 missingDate |-> MissingDatePrints(gstn_unmatched(merged'))]
  /\ pc' = "computed"
  /\ UNCHANGED <<gstnSheet, booksSheet, workbook, saveRet>>
  /\ UNCHANGED normVars

\* save_to_excel runs to wb.save and returns True.
SaveSucceeds ==
  /\ workbook' = WrittenWorkbook(workbook, result)
  /\ result' = CleanedResult(result, Len(BucketOrder))
  /\ saveRet' = Bool(TRUE)
  /\ UNCHANGED <<gstnSheet, booksSheet, merged, printed>>
  /\ UNCHANGED normVars

\* save_to_excel raises after k sheets (k = 0: load_workbook raises; k = 4:
\* wb.save raises), logs the error and returns False; the file is as it was.
SaveRaises ==
  /\ \E k \in 0 .. Len(BucketOrder) : result' = CleanedResult(result, k)
  /\ saveRet' = Bool(FALSE)
  /\ UNCHANGED <<gstnSheet, booksSheet, merged, printed, workbook>>
  /\ UNCHANGED normVars

\* Line 238, the call succeeds.
SaveOk == pc = "computed" /\ SaveSucceeds /\ pc' = "saved"

\* Line 238, the call fails.
SaveFail == pc = "computed" /\ SaveRaises /\ pc' = "save_failed"

\* save_to_excel called again on the same result after a failure.
RetryOk == pc = "save_failed" /\ SaveSucceeds /\ pc' = "resaved"

RetryFail == pc = "save_failed" /\ SaveRaises /\ pc' = "save_failed"

(***************************************************************************)
(* Inputs                                                                  *)
(***************************************************************************)
MaxGstnRows == 2

MaxBooksRows == 2

\* The columns of the two input sheets when every column is there; the
\* filing date is a column of GSTN only.
GstnColsAll ==
  <<PartyCol, InvoiceCol, DateCol, Col("Taxable"), Col("CGST"), Col("SGST"), Col("IGST"),
    Col("CESS"), FilingCol>>

BooksColsAll ==
  <<PartyCol, InvoiceCol, DateCol, Col("Taxable"), Col("CGST"), Col("SGST"), Col("IGST"),
    Col("CESS")>>

\* Every bag of at most n rows of D.
RECURSIVE BagsUpTo(_, _)
BagsUpTo(D, n) ==
  IF n = 0 THEN {EmptyBag}
  ELSE LET smaller == BagsUpTo(D, n - 1)
       IN  smaller \cup {b (+) SetToBag({x}) : b \in smaller, x \in D}

\* A sheet read by pd.read_excel: the columns at present of allCols, in order.
SheetOf(allCols, present, rows) ==
  Project(Table(allCols, rows), Positions(allCols, present, 1))

PartyP == Str(<<80>>)

PartyQ == Str(<<81>>)

\* "A1", "1", "ABC", "B2"
InvA1 == Str(<<65, 49>>)

Inv1 == Str(<<49>>)

InvABC == Str(<<65, 66, 67>>)

InvB2 == Str(<<66, 50>>)

DayBefore == Date(2024, 3, 31)

CutoffDay == Date(2024, 4, 1)

DayAfter == Date(2024, 4, 2)

SomeTax == <<Num(100), Num(9), Num(9), Null, Num(0)>>

GstnRow(party, inv, date, tax, filing) == <<party, inv, date>> \o tax \o <<filing>>

BooksRow(party, inv, date, tax) == <<party, inv, date>> \o tax

TitleRow == <<Str(<<84>>)>>

HeaderRow == <<Str(<<72>>), Str(<<72>>)>>

TemplateSheet == [exists |-> TRUE, cells |-> <<TitleRow, HeaderRow>>]

TemplateWorkbook == [b \in Buckets |-> TemplateSheet]

EmptyWorkbook == [b \in Buckets |-> AbsentSheet]

\* The state once the two sheets are loaded (line 26).
Loaded ==
  /\ pc = "loaded"
  /\ merged = Table(<<>>, EmptyBag)
  /\ result = NoResult
  /\ printed = NoPrints
  /\ saveRet = Null
  /\ IdleNorm

(***************************************************************************)
(* One run on sheets with missing parties, missing invoice numbers, keys   *)
(* shared within and across the sheets, and an all-letter invoice number   *)
(***************************************************************************)
MainGstnRows ==
  {GstnRow(PartyP, i, d, SomeTax, DayAfter) :
     i \in {InvA1, Inv1, InvABC}, d \in {DayBefore, CutoffDay}}
  \cup {GstnRow(PartyQ, Inv1, DayBefore, SomeTax, DayAfter),
        GstnRow(Null, Inv1, DayBefore, SomeTax, DayAfter),
        GstnRow(PartyP, Null, DayBefore, SomeTax, DayAfter)}

MainBooksRows ==
  {BooksRow(PartyP, i, DayBefore, SomeTax) : i \in {InvA1, Inv1, InvABC}}
  \cup {BooksRow(PartyQ, Inv1, DayBefore, SomeTax),
        BooksRow(Null, Inv1, DayBefore, SomeTax),
        BooksRow(PartyP, Null, DayBefore, SomeTax)}

Init ==
  /\ Loaded
  /\ gstnSheet \in {Table(GstnColsAll, b) : b \in BagsUpTo(MainGstnRows, MaxGstnRows)}
  /\ booksSheet \in {Table(BooksColsAll, b) : b \in BagsUpTo(MainBooksRows, MaxBooksRows)}
  /\ workbook = TemplateWorkbook

Next == Reconcile \/ SaveOk \/ SaveFail

Spec == Init /\ [][Next]_vars

(***************************************************************************)
(* Records and the buckets they are in                                     *)
(***************************************************************************)
\* A row of an input sheet that has a party and an invoice number.
Survives(sheet, r) ==
  /\ ~IsNull(Cell(sheet.cols, r, PartyCol))
  /\ ~IsNull(Cell(sheet.cols, r, InvoiceCol))

\* The composite key of a row of an input sheet.
KeyOf(sheet, r) ==
  <<Cell(sheet.cols, r, PartyCol), clean_invoice_number(Cell(sheet.cols, r, InvoiceCol))>>

\* The name in a result table of column c of an input sheet.
NameIn(c, sfx, tcols) == IF HasCol(tcols, <<c[1], sfx>>) THEN <<c[1], sfx>> ELSE c

\* The cells of row r of table t that come from the sheet with columns
\* sheetCols, whose overlapping columns carry the suffix sfx in t.
SideCells(sheetCols, sfx, t, r) ==
  [i \in 1 .. Len(sheetCols) |-> Cell(t.cols, r, NameIn(sheetCols[i], sfx, t.cols))]

\* How many rows of table t carry the record rec of that sheet.
CopiesOn(sheetCols, sfx, t, rec) ==
  BagCardinality([r \in {x \in DOMAIN t.rows : SideCells(sheetCols, sfx, t, x) = rec} |->
                    t.rows[r]])

\* How many surviving rows of the other sheet have the key k.
Partners(sheet, k) ==
  BagCardinality([r \in {x \in DOMAIN sheet.rows : Survives(sheet, x) /\ KeyOf(sheet, x) = k} |->
                    sheet.rows[r]])

GstnCopies(b, g) == CopiesOn(gstnSheet.cols, "_gstn", result[b], g)

BooksCopies(b, r) == CopiesOn(booksSheet.cols, "_books", result[b], r)

\* C1: once the buckets are computed, a surviving GSTN record with a BOOKS
\* partner of the same (party, key) is in MATCHED, once per partner, and in
\* neither PREV_FY_ITC nor NOTINBOOKS; without a partner it is not in MATCHED
\* and all its copies are in one of PREV_FY_ITC and NOTINBOOKS.  A surviving
\* BOOKS record with a GSTN partner is in MATCHED, once per partner, and not
\* in NEXT_FY_ITC; without one it is in NEXT_FY_ITC only.
C1_PartitionCompleteness ==
  pc = "computed" =>
    /\ \A g \in {x \in DOMAIN gstnSheet.rows : Survives(gstnSheet, x)} :
         LET n == gstnSheet.rows[g]
             k == Partners(booksSheet, KeyOf(gstnSheet, g))
         IN  IF k > 0
             THEN /\ GstnCopies("MATCHED", g) = n * k
                  /\ GstnCopies("PREV_FY_ITC", g) = 0
                  /\ GstnCopies("NOTINBOOKS", g) = 0
             ELSE /\ GstnCopies("MATCHED", g) = 0
                  /\ GstnCopies("PREV_FY_ITC", g) + GstnCopies("NOTINBOOKS", g) = n
                  /\ GstnCopies("PREV_FY_ITC", g) = 0 \/ GstnCopies("NOTINBOOKS", g) = 0
    /\ \A b \in {x \in DOMAIN booksSheet.rows : Survives(booksSheet, x)} :
         LET n == booksSheet.rows[b]
             k == Partners(gstnSheet, KeyOf(booksSheet, b))
         IN  IF k > 0
             THEN /\ BooksCopies("MATCHED", b) = n * k
                  /\ BooksCopies("NEXT_FY_ITC", b) = 0
             ELSE /\ BooksCopies("MATCHED", b) = 0
                  /\ BooksCopies("NEXT_FY_ITC", b) = n

\* Two GSTN records with the same key are both paired with a BOOKS record,
\* and a second BOOKS record has no partner.
C1_Witness ==
  /\ pc = "computed"
  /\ BagCardinality(gstnSheet.rows) = 2
  /\ BagCardinality(result["MATCHED"].rows) = 2
  /\ BagCardinality(result["NEXT_FY_ITC"].rows) = 1

\* An invoice number made of ASCII letters only.
AllLetters(v) ==
  /\ ~IsNull(v) /\ IsStr(v) /\ Chars(v) # <<>>
  /\ \A i \in 1 .. Len(Chars(v)) : Chars(v)[i] \in AsciiLetters

\* C2: once the buckets are computed, no row of the merged data has the
\* empty string as its key, and no row of a bucket carries an invoice
\* number made of letters only.
C2_EmptyKeyExcluded ==
  pc = "computed" =>
    /\ \A r \in DOMAIN merged.rows : Cell(merged.cols, r, CleanCol) # Str(<<>>)
    /\ \A b \in Buckets : \A r \in DOMAIN result[b].rows :
         \A c \in {GstnCol("InvoiceNumber_original"), BooksCol("InvoiceNumber_original")} :
           HasCol(result[b].cols, c) => ~AllLetters(Cell(result[b].cols, r, c))

\* C6: once the buckets are computed, every GSTN or BOOKS input record that
\* is in none of the four buckets is named by a printed diagnostic.
C6_NoSilentDrop ==
  pc = "computed" =>
    /\ \A g \in DOMAIN gstnSheet.rows :
         (\A b \in {"MATCHED", "PREV_FY_ITC", "NOTINBOOKS"} : GstnCopies(b, g) = 0)
           => BagIn(<<Cell(gstnSheet.cols, g, PartyCol), Cell(gstnSheet.cols, g, InvoiceCol)>>,
                    printed.missingDate)
    /\ \A r \in DOMAIN booksSheet.rows :
         (\A b \in {"MATCHED", "NEXT_FY_ITC"} : BooksCopies(b, r) = 0)
           => BagIn(<<Cell(booksSheet.cols, r, PartyCol), Cell(booksSheet.cols, r, InvoiceCol)>>,
                    printed.missingDate)

(***************************************************************************)
(* One run on GSTN records dated around the cutoff or not dated            *)
(***************************************************************************)
PeriodDates ==
  {Null, Date(2023, 12, 1), DayBefore, CutoffDay, DayAfter, Date(2024, 6, 1), Date(2025, 1, 1)}

PeriodGstnRows ==
  {GstnRow(PartyP, i, d, SomeTax, DayAfter) : i \in {InvA1, InvB2}, d \in PeriodDates}

PeriodBooksRows == {BooksRow(PartyP, Inv1, DayBefore, SomeTax)}

InitPeriod ==
  /\ Loaded
  /\ gstnSheet \in {Table(GstnColsAll, b) : b \in BagsUpTo(PeriodGstnRows, MaxGstnRows)}
  /\ booksSheet \in {Table(BooksColsAll, b) : b \in BagsUpTo(PeriodBooksRows, MaxBooksRows)}
  /\ workbook = TemplateWorkbook

SpecPeriod == InitPeriod /\ [][Next]_vars

\* The days of a date, counted so that a later date has the larger count.
DayCount(v) == (v[2] * 12 + v[3]) * 31 + v[4]

\* An invoice date that is there and earlier than 1 April 2024.
Earlier(v) == ~IsNull(v) /\ DayCount(v) < DayCount(Date(2024, 4, 1))

\* The surviving GSTN records with no BOOKS partner.
UnmatchedGstn ==
  {g \in DOMAIN gstnSheet.rows :
     Survives(gstnSheet, g) /\ Partners(booksSheet, KeyOf(gstnSheet, g)) = 0}

Amounts == {Null, Num(0), Num(90)}

TaxVectors == {<<a, b, c, d, e>> : a \in Amounts, b \in Amounts, c \in Amounts,
                                   d \in Amounts, e \in Amounts}

\* The BOOKS side: every amount missing, every amount 0, every amount 90,
\* and two mixed rows.
BooksTaxVectors ==
  {<<a, a, a, a, a>> : a \in Amounts}
  \cup {<<Num(90), Num(0), Null, Num(0), Num(90)>>, <<Num(0), Null, Num(90), Num(90), Num(0)>>}

TaxCols == {Col(tax_columns[i]) : i \in 1 .. Len(tax_columns)}

\* The tax columns a sheet may lack.
FlagSchemas == {{}, {Col("CESS")}, TaxCols}

InitFlag ==
  /\ Loaded
  /\ \E gl \in {{}, {Col("IGST")}}, bl \in FlagSchemas :
       /\ gstnSheet \in {SheetOf(GstnColsAll, Range(GstnColsAll) \ gl,
                                 SetToBag({GstnRow(PartyP, InvA1, DayBefore, t, DayAfter)})) :
                           t \in TaxVectors}
       /\ booksSheet \in {SheetOf(BooksColsAll, Range(BooksColsAll) \ bl,
                                  SetToBag({BooksRow(PartyP, Inv1, DayBefore, t)})) :
                            t \in BooksTaxVectors}
  /\ workbook = TemplateWorkbook

SpecFlag == InitFlag /\ [][Reconcile]_vars

\* A missing amount counts as 0.
ZeroFilled(v) == IF IsNull(v) THEN 0 ELSE v[2]

BothHaveAllTax == TaxCols \subseteq (Range(gstnSheet.cols) \cap Range(booksSheet.cols))

\* C3: when the five tax columns are on both sheets, every matched pair
\* carries MIS_MATCHED, which is false exactly when, a missing amount
\* counting as 0, the GSTN amount equals the BOOKS amount in all five.
C3_MismatchFlag ==
  (pc = "computed" /\ BothHaveAllTax) =>
    /\ HasCol(result["MATCHED"].cols, FlagCol)
    /\ \A r \in DOMAIN result["MATCHED"].rows :
         (Cell(result["MATCHED"].cols, r, FlagCol) = Bool(FALSE))
         <=> \A i \in 1 .. Len(tax_columns) :
               ZeroFilled(Cell(result["MATCHED"].cols, r, GstnCol(tax_columns[i])))
               = ZeroFilled(Cell(result["MATCHED"].cols, r, BooksCol(tax_columns[i])))

\* A pair whose IGST is missing on one side and 0 on the other, and whose
\* other amounts agree, is not flagged.
C3_Witness ==
  /\ pc = "computed"
  /\ BothHaveAllTax
  /\ \E r \in DOMAIN result["MATCHED"].rows :
       /\ Cell(result["MATCHED"].cols, r, GstnCol("IGST")) = Null
       /\ Cell(result["MATCHED"].cols, r, BooksCol("IGST")) = Num(0)
       /\ Cell(result["MATCHED"].cols, r, GstnCol("Taxable")) = Num(90)
       /\ Cell(result["MATCHED"].cols, r, FlagCol) = Bool(FALSE)

(***************************************************************************)
(* One run, and save_to_excel called again after a failure, on sheets      *)
(* with and without the invoice date and the filing date                   *)
(***************************************************************************)
BooksColsFiling == BooksColsAll \o <<FilingCol>>

BooksRowFiling(party, inv, date, tax, filing) == <<party, inv, date>> \o tax \o <<filing>>

SaveGstnRows ==
  {GstnRow(PartyP, InvA1, CutoffDay, SomeTax, DayAfter),
   GstnRow(PartyQ, Inv1, DayBefore, SomeTax, Null)}

SaveBooksRows ==
  {BooksRowFiling(PartyP, Inv1, CutoffDay, SomeTax, DayAfter),
   BooksRowFiling(PartyP, InvB2, DayBefore, SomeTax, Null)}

\* The columns a sheet may lack.
SaveSchemas == SUBSET {DateCol, FilingCol}

InitSave ==
  /\ Loaded
  /\ \E gl \in SaveSchemas, bl \in SaveSchemas :
       /\ gstnSheet \in {SheetOf(GstnColsAll, Range(GstnColsAll) \ gl, b) :
                           b \in BagsUpTo(SaveGstnRows, MaxGstnRows)}
       /\ booksSheet \in {SheetOf(BooksColsFiling, Range(BooksColsFiling) \ bl, b) :
                            b \in BagsUpTo(SaveBooksRows, MaxBooksRows)}
  /\ workbook = TemplateWorkbook

NextSave == Reconcile \/ SaveOk \/ SaveFail \/ RetryOk \/ RetryFail

SpecSave == InitSave /\ [][NextSave]_vars

Last(s) == s[Len(s)]

NextFy == result["NEXT_FY_ITC"]

HasBooksOnlyRows == DOMAIN NextFy.rows # {}

C8_FailedSaveKeepsResult == [][pc' = "save_failed" => result' = result]_vars

(***************************************************************************)
(* Runs one after the other on the same workbook, the sheets edited in     *)
(* between                                                                 *)
(***************************************************************************)
RunsGstnRows ==
  {GstnRow(PartyP, InvA1, DayBefore, SomeTax, DayAfter),
   GstnRow(PartyP, InvB2, CutoffDay, SomeTax, DayAfter)}

RunsBooksRows == {BooksRow(PartyP, Inv1, DayBefore, SomeTax)}

RunsInputs ==
  {<<Table(GstnColsAll, g), Table(BooksColsAll, b)>> :
     g \in BagsUpTo(RunsGstnRows, MaxGstnRows), b \in BagsUpTo(RunsBooksRows, MaxBooksRows)}

\* MATCHED and PREV_FY_ITC are sheets with two heading rows, the other two
\* are not in the workbook yet.
MixedWorkbook ==
  [b \in Buckets |-> IF b \in {"MATCHED", "PREV_FY_ITC"} THEN TemplateSheet ELSE AbsentSheet]

InitRuns ==
  /\ Loaded
  /\ \E in \in RunsInputs : gstnSheet = in[1] /\ booksSheet = in[2]
  /\ workbook = MixedWorkbook

\* The script is started again on the workbook, whose GSTN and BOOKS sheets
\* may have been edited.
Relaunch ==
  /\ pc \in {"saved", "save_failed"}
  /\ \E in \in RunsInputs : gstnSheet' = in[1] /\ booksSheet' = in[2]
  /\ pc' = "loaded"
  /\ merged' = Table(<<>>, EmptyBag)
  /\ result' = NoResult
  /\ printed' = NoPrints
  /\ saveRet' = Null
  /\ UNCHANGED workbook
  /\ UNCHANGED normVars

\* A run whose save fails leaves the workbook as it was, so the runs that
\* follow one another here are the ones whose save succeeds.
NextRuns == Reconcile \/ SaveOk \/ Relaunch

SpecRuns == InitRuns /\ [][NextRuns]_vars

\* The rows of a sequence, counted.
SeqBag(s) == [x \in Range(s) |-> Cardinality({i \in 1 .. Len(s) : s[i] = x})]

\* C9: a successful save_to_excel leaves the sheet of a bucket with no row
\* as it was, absent if it was absent, and leaves in the sheet of every
\* other bucket the rows of that bucket.
C9_EmptyBucketsNotWritten ==
  [][pc' = "saved" =>
       \A b \in Buckets :
         IF result[b].none \/ BagCardinality(result[b].rows) = 0
         THEN workbook'[b] = workbook[b]
         ELSE /\ workbook'[b].exists
              /\ SeqBag(DataRows(workbook'[b])) = result'[b].rows]_vars

\* NEXT_FY_ITC had no row and its sheet is still absent, while the sheet of
\* NOTINBOOKS has been created and written.
C9_Witness ==
  /\ pc = "saved"
  /\ BagCardinality(result["NEXT_FY_ITC"].rows) = 0
  /\ ~workbook["NEXT_FY_ITC"].exists
  /\ workbook["NOTINBOOKS"].exists
  /\ DataRows(workbook["NOTINBOOKS"]) # <<>>

\* The first two rows of a sheet: as the workbook had them, or empty for a
\* sheet a run created.
ExpectedHead(b) == IF MixedWorkbook[b].exists THEN HeadRows(MixedWorkbook[b]) ELSE <<<<>>, <<>>>>

\* C10, as amended: after a successful run, every bucket that has rows in
\* that run has a sheet whose rows from row 3 on are these rows and whose
\* rows 1-2 are unchanged.
C10_LatestRunRows ==
  pc = "saved" =>
    \A b \in Buckets :
      BagCardinality(result[b].rows) > 0 =>
        /\ workbook[b].exists
        /\ SeqBag(DataRows(workbook[b])) = result[b].rows
        /\ HeadRows(workbook[b]) = ExpectedHead(b)

\* After a later run MATCHED has one row, written to its sheet, and
\* PREV_FY_ITC has none while its sheet has a row of an earlier run.
C10_Witness ==
  /\ pc = "saved"
  /\ BagCardinality(result["MATCHED"].rows) = 1
  /\ Len(DataRows(workbook["MATCHED"])) = 1
  /\ BagCardinality(result["PREV_FY_ITC"].rows) = 0
  /\ DataRows(workbook["PREV_FY_ITC"]) # <<>>

\* C10, as claimed: after a successful run, the rows from row 3 on of the
\* sheet of every bucket are the rows of that bucket in that run, none when
\* the bucket has none.
C10_SheetsReflectLatestRun ==
  pc = "saved" =>
    \A b \in Buckets : SeqBag(DataRows(workbook[b])) = result[b].rows

====
